---- MODULE Spec2Model ----
(***************************************************************************)
(* Model of the prediction page of AmyloIC50Pred (src/app/page.jsx): the   *)
(* view state of the Home component, its event handlers, and the input     *)
(* normalisation they perform (free text and uploaded sheets).             *)
(*                                                                         *)
(* A JavaScript string is a sequence of one-character strings.  A raw cell *)
(* of a sheet is a record: [s |-> chars] a string, [n |-> k] a number,     *)
(* [b |-> v] a boolean, [u |-> TRUE] a missing (undefined) cell.           *)
(***************************************************************************)
EXTENDS Integers, Sequences, FiniteSets, TLC

VARIABLES
  textareaValue,   \* useState('')    free text
  selectedFile,    \* useState(null)  the File object, or NoFile
  fileName,        \* useState('')
  results,         \* useState(null)  Null, [error |-> m] or [predictions |-> ps]
  isLoading,       \* useState(false)
  inputError,      \* useState('')    the inline message, "" when none
  pc,              \* where handleSubmit is: "idle", "reading" (await readFileContent),
                   \* "fetching" (await fetch), "decoding" (await res.json())
  smilesToProcess, \* handleSubmit's local list, as last assembled
  request,         \* the body handed to fetch by the current/last submission, or Null
  res,             \* the response fetch resolved with, while its body is being decoded, or Null
  event,           \* the handler branch that ran last, with the file name or response it was given
  active,          \* number of handleSubmit invocations started and not yet finished
  reads,           \* file reads started by the latest submit action
  fetches,         \* network requests started by the latest submit action
  call,            \* arguments of a direct call of a pure helper
  ret              \* its return value

vars == <<textareaValue, selectedFile, fileName, results, isLoading, inputError,
          pc, smilesToProcess, request, res, event, active, reads, fetches, call, ret>>

pageVars == <<textareaValue, selectedFile, fileName, results, isLoading, inputError,
              pc, smilesToProcess, request, res, event, active, reads, fetches>>

\* --- Configuration ---
MAX_COMPOUNDS == 20

Null == [null |-> TRUE]
NoFile == [nofile |-> TRUE]

(***************************************************************************)
(* JavaScript string primitives.                                           *)
(***************************************************************************)
\* A character is a one-character string, or the name "U+XXXX" of a code unit
\* that has no string literal.  The alphabet is ASCII, the Latin-1 letters,
\* the white space of ECMAScript and the few letters named below.

\* WhiteSpace and LineTerminator of ECMAScript: what trim() strips
WhiteSpace ==
  {" ", "\t", "\n", "\r", "\f", "U+000B", "U+00A0", "U+1680",
   "U+2000", "U+2001", "U+2002", "U+2003", "U+2004", "U+2005", "U+2006", "U+2007",
   "U+2008", "U+2009", "U+200A", "U+2028", "U+2029", "U+202F", "U+205F", "U+3000",
   "U+FEFF"}

Upper == <<"A","B","C","D","E","F","G","H","I","J","K","L","M",
           "N","O","P","Q","R","S","T","U","V","W","X","Y","Z">>
Lower == <<"a","b","c","d","e","f","g","h","i","j","k","l","m",
           "n","o","p","q","r","s","t","u","v","w","x","y","z">>

\* the upper-case letters of Latin-1 and, at the same index, their lower-case forms
UpperLatin1 ==
  <<"U+00C0", "U+00C1", "U+00C2", "U+00C3", "U+00C4", "U+00C5", "U+00C6", "U+00C7",
    "U+00C8", "U+00C9", "U+00CA", "U+00CB", "U+00CC", "U+00CD", "U+00CE", "U+00CF",
    "U+00D0", "U+00D1", "U+00D2", "U+00D3", "U+00D4", "U+00D5", "U+00D6", "U+00D8",
    "U+00D9", "U+00DA", "U+00DB", "U+00DC", "U+00DD", "U+00DE">>
LowerLatin1 ==
  <<"U+00E0", "U+00E1", "U+00E2", "U+00E3", "U+00E4", "U+00E5", "U+00E6", "U+00E7",
    "U+00E8", "U+00E9", "U+00EA", "U+00EB", "U+00EC", "U+00ED", "U+00EE", "U+00EF",
    "U+00F0", "U+00F1", "U+00F2", "U+00F3", "U+00F4", "U+00F5", "U+00F6", "U+00F8",
    "U+00F9", "U+00FA", "U+00FB", "U+00FC", "U+00FD", "U+00FE">>

\* the characters that toLowerCase changes
HasLower ==
  {Upper[i] : i \in 1..26} \cup {UpperLatin1[i] : i \in 1..Len(UpperLatin1)}
    \cup {"U+0130", "U+0178", "U+039C"}

\* the characters that toUpperCase changes
HasUpper ==
  {Lower[i] : i \in 1..26} \cup {LowerLatin1[i] : i \in 1..Len(LowerLatin1)}
    \cup {"U+00DF", "U+00B5", "U+03BC", "U+00FF"}

\* the lower-case form of one character, as a string: one character, or two
\* for U+0130 (I with dot above)
ToLowerChar(c) ==
  IF c \notin HasLower THEN <<c>>
  ELSE IF \E i \in 1..26 : Upper[i] = c
  THEN <<Lower[CHOOSE i \in 1..26 : Upper[i] = c]>>
  ELSE IF \E i \in 1..Len(UpperLatin1) : UpperLatin1[i] = c
  THEN <<LowerLatin1[CHOOSE i \in 1..Len(UpperLatin1) : UpperLatin1[i] = c]>>
  ELSE CASE c = "U+0130" -> <<"i", "U+0307">>
         [] c = "U+0178" -> <<"U+00FF">>
         [] c = "U+039C" -> <<"U+03BC">>
         [] OTHER -> <<c>>

\* the upper-case form of one character, as a string: one character, or two
\* for U+00DF (sharp s)
ToUpperChar(c) ==
  IF c \notin HasUpper THEN <<c>>
  ELSE IF \E i \in 1..26 : Lower[i] = c
  THEN <<Upper[CHOOSE i \in 1..26 : Lower[i] = c]>>
  ELSE IF \E i \in 1..Len(LowerLatin1) : LowerLatin1[i] = c
  THEN <<UpperLatin1[CHOOSE i \in 1..Len(LowerLatin1) : LowerLatin1[i] = c]>>
  ELSE CASE c = "U+00DF" -> <<"S", "S">>
         [] c = "U+00B5" -> <<"U+039C">>
         [] c = "U+03BC" -> <<"U+039C">>
         [] c = "U+00FF" -> <<"U+0178">>
         [] OTHER -> <<c>>

\* String.prototype.toLowerCase: the lower-case forms of the characters, in order
ToLowerCase(s) ==
  LET low == [i \in 1..Len(s) |-> ToLowerChar(s[i])]
  IN  IF \A i \in 1..Len(s) : Len(low[i]) = 1
      THEN [i \in 1..Len(s) |-> low[i][1]]
      ELSE LET long == {i \in 1..Len(s) : Len(low[i]) = 2}
               \* where the form of character i ends in the result
               end  == [i \in 0..Len(s) |-> i + Cardinality({j \in long : j <= i})]
           IN  [k \in 1..end[Len(s)] |->
                  LET i == CHOOSE j \in 1..Len(s) : end[j - 1] < k /\ k <= end[j]
                  IN  low[i][k - end[i - 1]]]

\* String.prototype.trim
Trim(s) ==
  LET keep == {i \in 1..Len(s) : s[i] \notin WhiteSpace}
  IN  IF keep = {} THEN <<>>
      ELSE LET lo == CHOOSE i \in keep : \A j \in keep : i <= j
               hi == CHOOSE i \in keep : \A j \in keep : j <= i
           IN  SubSeq(s, lo, hi)

\* String.prototype.includes
Includes(s, sub) ==
  \E i \in 0..(Len(s) - Len(sub)) : SubSeq(s, i + 1, i + Len(sub)) = sub

\* String.prototype.endsWith
EndsWith(s, suf) ==
  /\ Len(suf) <= Len(s)
  /\ SubSeq(s, Len(s) - Len(suf) + 1, Len(s)) = suf

\* String.prototype.lastIndexOf for a one-character needle (0-based, -1 when absent)
LastIndexOf(s, c) ==
  LET at == {i \in 1..Len(s) : s[i] = c}
  IN  IF at = {} THEN -1 ELSE (CHOOSE i \in at : \A j \in at : j <= i) - 1

\* String.prototype.substring(start): a negative start counts as 0
Substring(s, start) ==
  LET b == IF start < 0 THEN 0 ELSE start
  IN  SubSeq(s, b + 1, Len(s))

\* s.split(re) for a regular expression matching exactly one character of D
RECURSIVE SplitEach(_, _)
SplitEach(s, D) ==
  LET at == {i \in 1..Len(s) : s[i] \in D}
  IN  IF at = {} THEN <<s>>
      ELSE LET i == CHOOSE k \in at : \A j \in at : k <= j
           IN  <<SubSeq(s, 1, i - 1)>> \o SplitEach(SubSeq(s, i + 1, Len(s)), D)

\* s.split(re) for a regular expression matching a maximal run of characters of D ([..]+)
RECURSIVE SplitRuns(_, _)
SplitRuns(s, D) ==
  LET at == {i \in 1..Len(s) : s[i] \in D}
  IN  IF at = {} THEN <<s>>
      ELSE LET i    == CHOOSE k \in at : \A j \in at : k <= j
               past == {k \in (i + 1)..Len(s) : s[k] \notin D}
               j    == IF past = {} THEN Len(s) + 1
                       ELSE CHOOSE k \in past : \A m \in past : k <= m
           IN  <<SubSeq(s, 1, i - 1)>> \o SplitRuns(SubSeq(s, j, Len(s)), D)

\* s.split(/\r?\n/): a line break is "\n" or "\r\n"
RECURSIVE SplitLines(_)
SplitLines(s) ==
  LET at == {i \in 1..Len(s) : s[i] = "\n"}
  IN  IF at = {} THEN <<s>>
      ELSE LET i   == CHOOSE k \in at : \A j \in at : k <= j
               end == IF i > 1 /\ s[i - 1] = "\r" THEN i - 2 ELSE i - 1
           IN  <<SubSeq(s, 1, end)>> \o SplitLines(SubSeq(s, i + 1, Len(s)))

\* Array.prototype.slice(start)
Slice(xs, start) == SubSeq(xs, start + 1, Len(xs))

\* Array.prototype.join
RECURSIVE Join(_, _)
Join(xs, sep) ==
  IF xs = <<>> THEN <<>>
  ELSE IF Len(xs) = 1 THEN xs[1]
  ELSE xs[1] \o sep \o Join(Tail(xs), sep)

Digit == <<"0","1","2","3","4","5","6","7","8","9">>

\* String(k) for a non-negative integer k
RECURSIVE NatToString(_)
NatToString(k) ==
  IF k < 10 THEN <<Digit[k + 1]>>
  ELSE NatToString(k \div 10) \o <<Digit[(k % 10) + 1]>>

\* truthiness of a raw cell value (undefined, "", 0 and false are falsy)
Truthy(c) ==
  IF "s" \in DOMAIN c THEN c.s # <<>>
  ELSE IF "n" \in DOMAIN c THEN c.n # 0
  ELSE IF "b" \in DOMAIN c THEN c.b
  ELSE FALSE

\* String(v) of a raw cell value
StringOf(c) ==
  IF "s" \in DOMAIN c THEN c.s
  ELSE IF "n" \in DOMAIN c THEN NatToString(c.n)
  ELSE IF "b" \in DOMAIN c THEN (IF c.b THEN <<"t","r","u","e">> ELSE <<"f","a","l","s","e">>)
  ELSE <<"u","n","d","e","f","i","n","e","d">>

\* row[0] of a row array: undefined when the row has no first element
FirstCell(row) == IF Len(row) > 0 THEN row[1] ELSE [u |-> TRUE]

kwSmiles   == <<"s","m","i","l","e","s">>
kwCompound == <<"c","o","m","p","o","u","n","d">>
kwMolecule == <<"m","o","l","e","c","u","l","e">>
extCsv     == <<".","c","s","v">>
extXls     == <<".","x","l","s">>
extXlsx    == <<".","x","l","s","x">>


(***************************************************************************)
(* Messages shown to the user.                                             *)
(***************************************************************************)
msgInvalidType   == "Invalid file type. Please upload CSV, XLS, or XLSX."
msgNoValidSmiles == "No valid SMILES found in file. Check format (SMILES in first column, optional header)."
msgNoInput       == "No SMILES input. Enter in textarea or upload file."
msgNoSheets      == "No sheets found in the file."
msgCouldNotParse == "Could not parse file. Ensure SMILES are in the first column of a valid Excel (xlsx, xls) or CSV file."
msgFailedProcess == "Failed to process file."

MsgTooMany_Swapped(count) ==
  "Max " \o ToString(count) \o " compounds allowed. You provided " \o ToString(MAX_COMPOUNDS) \o "."

MsgTooMany(count) ==
  "Max " \o ToString(MAX_COMPOUNDS) \o " compounds allowed. You provided " \o ToString(count) \o "."

(***************************************************************************)
(* Free text: handleSubmit's text branch.                                  *)
(***************************************************************************)
NonEmpty(s) == s # <<>>

\* .map(s => s.trim())
TrimEach(xs) == [i \in 1..Len(xs) |-> Trim(xs[i])]

TextToSmiles_NoTrim(text) ==
  IF Trim(text) # <<>>
  THEN SelectSeq(SplitRuns(text, {"\n", ","}), NonEmpty)
  ELSE <<>>

TextToSmiles(text) ==
  IF Trim(text) # <<>>
  THEN SelectSeq(TrimEach(SplitRuns(text, {"\n", ","})), NonEmpty)
  ELSE <<>>

(***************************************************************************)
(* Files.  A file is a record                                              *)
(*   name      its name (characters)                                       *)
(*   type      its MIME type                                               *)
(*   readError Null, or the event the FileReader passes to onerror when    *)
(*             the read fails                                              *)
(*   content   what the FileReader delivers (characters)                   *)
(*   xlsx      what XLSX.read makes of the content: "throws", "nosheets"   *)
(*             (a workbook without sheet names) or "ok"                    *)
(*   sheet     what sheet_to_json makes of the first sheet: a sequence of  *)
(*             rows, each a sequence of raw cells, blank rows removed      *)
(***************************************************************************)
IsCsvTyped(file) ==
  EndsWith(ToLowerCase(file.name), extCsv) \/ file.type = "text/csv"

\* the event a FileReader passes to onerror: a ProgressEvent, which has no
\* message property
ProgressEvent == [type |-> "error"]

\* `${err.message}`: the text "undefined" for an object without the property
MessageText(err) == IF "message" \in DOMAIN err THEN err.message ELSE "undefined"

readFileContent(file) ==
  IF file.readError # Null
  THEN [rejected |-> TRUE, message |-> "File reading error: " \o MessageText(file.readError)]
  ELSE [rejected |-> FALSE, content |-> file.content, isBinary |-> ~IsCsvTyped(file)]

KeepSmiles_ShortOk(s) ==
  /\ s # <<>>
  /\ Len(s) > 1
  /\ ~Includes(ToLowerCase(s), kwSmiles)
  /\ ~Includes(ToLowerCase(s), kwCompound)

\* the filter applied to every candidate of a file
KeepSmiles(s) ==
  /\ s # <<>>
  /\ Len(s) > 2
  /\ ~Includes(ToLowerCase(s), kwSmiles)
  /\ ~Includes(ToLowerCase(s), kwCompound)

IsHeaderCell_UpTo50(firstRowFirstCell) ==
  /\ \/ Includes(firstRowFirstCell, kwSmiles)
     \/ Includes(firstRowFirstCell, kwCompound)
     \/ Includes(firstRowFirstCell, kwMolecule)
  /\ Len(firstRowFirstCell) <= 50

IsHeaderCell(firstRowFirstCell) ==
  /\ \/ Includes(firstRowFirstCell, kwSmiles)
     \/ Includes(firstRowFirstCell, kwCompound)
     \/ Includes(firstRowFirstCell, kwMolecule)
  /\ Len(firstRowFirstCell) < 50

SheetStartIndex_AnyCount(localJsonSheet) ==
  LET c == FirstCell(localJsonSheet[1])
      firstRowFirstCell == ToLowerCase(Trim(IF Truthy(c) THEN StringOf(c) ELSE <<>>))
  IN  IF IsHeaderCell(firstRowFirstCell) THEN 1 ELSE 0

\* structured path: startIndex of the sheet
SheetStartIndex(localJsonSheet) ==
  LET c == FirstCell(localJsonSheet[1])
      firstRowFirstCell == ToLowerCase(Trim(IF Truthy(c) THEN StringOf(c) ELSE <<>>))
  IN  IF Len(localJsonSheet) > 1 /\ IsHeaderCell(firstRowFirstCell) THEN 1 ELSE 0

SheetCellText(row) ==
  IF Truthy(FirstCell(row)) THEN Trim(StringOf(FirstCell(row))) ELSE <<>>

\* structured path: [startIndex, smiles]
SheetSmiles(localJsonSheet) ==
  IF Len(localJsonSheet) > 0
  THEN LET startIndex == SheetStartIndex(localJsonSheet)
           rest == Slice(localJsonSheet, startIndex)
           mapped == [i \in 1..Len(rest) |-> SheetCellText(rest[i])]
       IN  [startIndex |-> startIndex, smiles |-> SelectSeq(mapped, KeepSmiles)]
  ELSE [startIndex |-> 0, smiles |-> <<>>]

FieldSep == {",", ";", "\t"}

LineStartIndex(rows) ==
  LET firstRowFirstCell == ToLowerCase(Trim(SplitEach(rows[1], FieldSep)[1]))
  IN  IF Len(rows) > 1 /\ IsHeaderCell(firstRowFirstCell) THEN 1 ELSE 0

LineCellText(row) ==
  LET f == SplitEach(row, FieldSep)[1]
  IN  IF f # <<>> THEN Trim(f) ELSE <<>>

\* fallback path: [startIndex, smiles] from the text of a CSV file
LineSmiles(fileContent) ==
  LET rows == SplitLines(fileContent)
  IN  IF Len(rows) > 0
      THEN LET startIndex == LineStartIndex(rows)
               rest == Slice(rows, startIndex)
               mapped == [i \in 1..Len(rest) |-> LineCellText(rest[i])]
           IN  [startIndex |-> startIndex, smiles |-> SelectSeq(mapped, KeepSmiles)]
      ELSE [startIndex |-> 0, smiles |-> <<>>]

\* parseFileContent(fileContent, isBinary, fileName); xlsx and sheet are the
\* library's answers for this content
parseFileContent(fileContent, isBinary, name, xlsx, sheet) ==
  IF xlsx = "ok"
  THEN LET r == SheetSmiles(sheet)
       IN  [threw |-> FALSE, path |-> "sheet", rows |-> sheet,
            startIndex |-> r.startIndex, smiles |-> r.smiles]
  ELSE \* XLSX.read threw, or "No sheets found in the file." was thrown: both are caught
       IF ~isBinary /\ EndsWith(ToLowerCase(name), extCsv)
       THEN LET r == LineSmiles(fileContent)
            IN  [threw |-> FALSE, path |-> "lines", rows |-> SplitLines(fileContent),
                 startIndex |-> r.startIndex, smiles |-> r.smiles]
       ELSE [threw |-> TRUE, message |-> msgCouldNotParse]

\* handleFileChange: the extension test
allowedTypes == {extCsv, extXls, extXlsx}

FileExtension(name) == ToLowerCase(Substring(name, LastIndexOf(name, ".")))

ExtensionAllowed_Includes(name) == \E t \in allowedTypes : Includes(ToLowerCase(name), t)

ExtensionAllowed(name) == FileExtension(name) \in allowedTypes


(***************************************************************************)
(* The external prediction service: what fetch and res.json() can deliver  *)
(* for a request.                                                          *)
(***************************************************************************)
sInhibitor == <<"i","n","h","i","b","i","t","o","r">>
sDecoy     == <<"d","e","c","o","y">>

AsInhibitor(smiles) ==
  [smiles |-> smiles, classification |-> sInhibitor, class |-> [n |-> 1], ic50 |-> [n |-> 5]]

AsDecoy(smiles) ==
  [smiles |-> smiles, classification |-> sDecoy, class |-> Null, ic50 |-> Null]

Responses(req) ==
  { [kind |-> "network", message |-> "Failed to fetch"],
    [kind |-> "badjson", message |-> "Unexpected token < in JSON at position 0"],
    [kind |-> "json", ok |-> FALSE, status |-> "400", data |-> [error |-> "bad request"]],
    [kind |-> "json", ok |-> FALSE, status |-> "400", data |-> [error |-> ""]],
    [kind |-> "json", ok |-> FALSE, status |-> "500", data |-> [detail |-> "x"]],
    [kind |-> "json", ok |-> FALSE, status |-> "502", data |-> Null],
    [kind |-> "json", ok |-> TRUE, status |-> "200", data |-> Null],
    [kind |-> "json", ok |-> TRUE, status |-> "200",
     data |-> [predictions |-> [i \in 1..Len(req.smiles) |-> AsInhibitor(req.smiles[i])]]],
    [kind |-> "json", ok |-> TRUE, status |-> "200",
     data |-> [predictions |-> [i \in 1..Len(req.smiles) |-> AsDecoy(req.smiles[i])]]] }

(***************************************************************************)
(* The three views derived from the result set by useEffect([results]).    *)
(* A prediction is [smiles, classification, class, ic50], class and ic50   *)
(* being Null or [n |-> k] (whole numbers).                                *)
(***************************************************************************)
sNA == <<"N", "/", "A">>

\* classification.charAt(0).toUpperCase() + classification.slice(1)
Capitalize(s) == IF s = <<>> THEN <<>> ELSE ToUpperChar(s[1]) \o Tail(s)

\* Number.prototype.toFixed(2) of a whole number
ToFixed2(k) == NatToString(k) \o <<".", "0", "0">>

\* `Class ${classNum}`
ClassName(classNum) == <<"C","l","a","s","s"," ">> \o NatToString(classNum)

TableData(predictions) ==
  [index \in 1..Len(predictions) |->
     LET item == predictions[index]
     IN  [id |-> [n |-> index],
          smiles |-> [s |-> item.smiles],
          type |-> [s |-> Capitalize(item.classification)],
          class |-> IF item.class # Null THEN item.class ELSE [s |-> sNA],
          ic50 |-> IF item.ic50 # Null THEN [s |-> ToFixed2(item.ic50.n)] ELSE [s |-> sNA]]]

\* the value of a decimal digit
DigitValue(c) == CHOOSE d \in 0..9 : Digit[d + 1] = c

\* a < b for two decimal numerals without leading zeros
DecLess(a, b) ==
  \/ Len(a) < Len(b)
  \/ /\ Len(a) = Len(b)
     /\ \E k \in 1..Len(a) : /\ SubSeq(a, 1, k - 1) = SubSeq(b, 1, k - 1)
                              /\ DigitValue(a[k]) < DigitValue(b[k])

\* the largest array index, 2^32 - 2
MaxIndexKey == <<"4","2","9","4","9","6","7","2","9","4">>

\* a property name that is an array index: the canonical numeral of a whole
\* number up to 2^32 - 2.  Object.entries lists these first, in ascending order.
IsIndexKey(name) ==
  /\ name # <<>>
  /\ \A k \in 1..Len(name) : \E d \in 1..10 : Digit[d] = name[k]
  /\ Len(name) > 1 => name[1] # "0"
  /\ ~DecLess(MaxIndexKey, name)

\* The properties typeCounts inherits from Object.prototype under a name that
\* the capitalisation leaves alone.  (acc[type] || 0) + 1 reads the inherited
\* function or object and yields a string: __proto__ is then not stored at
\* all, the others are stored as strings, which the filter value > 0 drops.
InheritedKeys ==
  {<<"_","_","p","r","o","t","o","_","_">>,
   <<"_","_","d","e","f","i","n","e","G","e","t","t","e","r","_","_">>,
   <<"_","_","d","e","f","i","n","e","S","e","t","t","e","r","_","_">>,
   <<"_","_","l","o","o","k","u","p","G","e","t","t","e","r","_","_">>,
   <<"_","_","l","o","o","k","u","p","S","e","t","t","e","r","_","_">>}

\* Object.entries(typeCounts), filtered: the types with their counts, the
\* array-index names first in ascending order, then the other names in the
\* order of their first occurrence
PieChartData(predictions) ==
  LET type(i) == Capitalize(predictions[i].classification)
      first   == {i \in 1..Len(predictions) :
                    /\ type(i) \notin InheritedKeys
                    /\ \A j \in 1..(i - 1) : type(j) # type(i)}
      Before(f, g) == IF IsIndexKey(type(f))
                      THEN ~IsIndexKey(type(g)) \/ DecLess(type(f), type(g))
                      ELSE ~IsIndexKey(type(g)) /\ f < g
  IN  [k \in 1..Cardinality(first) |->
         LET i == CHOOSE f \in first : Cardinality({g \in first : Before(g, f)}) = k - 1
         IN  [name |-> type(i),
              value |-> Cardinality({j \in 1..Len(predictions) : type(j) = type(i)})]]

BarChartData_AnyType(predictions) ==
  [c \in 1..3 |->
     [name |-> ClassName(c - 1),
      value |-> Cardinality({i \in 1..Len(predictions) :
                               /\ predictions[i].class # Null
                               /\ ClassName(predictions[i].class.n) = ClassName(c - 1)})]]

BarChartData(predictions) ==
  [c \in 1..3 |->
     [name |-> ClassName(c - 1),
      value |-> Cardinality({i \in 1..Len(predictions) :
                               /\ predictions[i].classification = sInhibitor
                               /\ predictions[i].class # Null
                               /\ ClassName(predictions[i].class.n) = ClassName(c - 1)})]]

\* the effect: what setTableData, setPieChartData and setBarChartData receive
DerivedViews(rs) ==
  IF rs # Null /\ "predictions" \in DOMAIN rs
  THEN [tableData |-> TableData(rs.predictions),
        pieChartData |-> PieChartData(rs.predictions),
        barChartData |-> BarChartData(rs.predictions)]
  ELSE [tableData |-> <<>>, pieChartData |-> <<>>, barChartData |-> <<>>]

(***************************************************************************)
(* CSV export.  A field is a raw value: Null, [u |-> TRUE] (undefined),    *)
(* [n |-> k] or [s |-> characters]; a table row is a record of five.       *)
(***************************************************************************)
\* stringField.replace(/"/g, '""')
RECURSIVE DoubleQuotes(_)
DoubleQuotes(s) ==
  IF s = <<>> THEN <<>>
  ELSE (IF Head(s) = "\"" THEN <<"\"", "\"">> ELSE <<Head(s)>>) \o DoubleQuotes(Tail(s))

escapeCSVField_NoDoubling(field) ==
  IF field = Null \/ "u" \in DOMAIN field THEN <<>>
  ELSE LET stringField == StringOf(field)
       IN  IF \/ Includes(stringField, <<",">>)
              \/ Includes(stringField, <<"\"">>)
              \/ Includes(stringField, <<"\n">>)
              \/ Includes(stringField, <<"\r">>)
           THEN <<"\"">> \o stringField \o <<"\"">>
           ELSE stringField

escapeCSVField(field) ==
  IF field = Null \/ "u" \in DOMAIN field THEN <<>>
  ELSE LET stringField == StringOf(field)
       IN  IF \/ Includes(stringField, <<",">>)
              \/ Includes(stringField, <<"\"">>)
              \/ Includes(stringField, <<"\n">>)
              \/ Includes(stringField, <<"\r">>)
           THEN <<"\"">> \o DoubleQuotes(stringField) \o <<"\"">>
           ELSE stringField

headers ==
  << <<"I","D">>,
     <<"C","o","m","p","o","u","n","d"," ","(","S","M","I","L","E","S",")">>,
     <<"T","y","p","e">>,
     <<"C","l","a","s","s">>,
     <<"I","C","5","0"," ","(","n","M",")">> >>

\* handleExportCSV: the text of the downloaded file, Null when nothing is downloaded
handleExportCSV(table) ==
  IF Len(table) = 0 THEN Null
  ELSE LET csvRows ==
             <<Join(headers, <<",">>)>> \o
             [i \in 1..Len(table) |->
                Join(<<escapeCSVField(table[i].id),
                       escapeCSVField(table[i].smiles),
                       escapeCSVField(table[i].type),
                       escapeCSVField(table[i].class),
                       escapeCSVField(table[i].ic50)>>, <<",">>)]
       IN  Join(csvRows, <<"\n">>)

(***************************************************************************)
(* Inputs: the texts a user can type and the files a user can choose.      *)
(***************************************************************************)
MaxPageTextLen == 2   \* longest enumerated free text of the page
MaxPageRows    == 2   \* most rows of an enumerated sheet of the page
MaxTextLen     == 5   \* longest free text given to TextToSmiles directly
MaxRows        == 3   \* most rows of a sheet given to parseFileContent directly
MaxLines       == 3   \* most lines of a text given to parseFileContent directly

SeqsUpTo(S, n) == UNION {[1..k -> S] : k \in 0..n}

Repeat(x, n) == [i \in 1..n |-> x]

sSMILES   == <<"S","M","I","L","E","S">>
sMolecule == <<"M","o","l","e","c","u","l","e">>
sCompound == <<"m","y"," ","C","o","m","p","o","u","n","d">>
sCCO      == <<"C","C","O">>
sCNC      == <<" ","C","N","C"," ">>
sCC       == <<"C","C">>

\* a header-like cell of exactly n characters
LongCell(n) == kwMolecule \o Repeat("C", n - Len(kwMolecule))

\* a header-like cell of 49 characters that has 50 once lowercased
sDotted == LongCell(48) \o <<"U+0130">>

\* an identifier padded with a form feed and a no-break space
sPadded == <<"\f">> \o sCCO \o <<"U+00A0">>

\* counts around the limit
NearLimit == {MAX_COMPOUNDS - 1, MAX_COMPOUNDS, MAX_COMPOUNDS + 1}

PageTexts ==
  SeqsUpTo({"C", ",", " "}, MaxPageTextLen)
    \cup {Join(<<sCCO, sCNC, sCC>>, <<",">>), <<"\f", "U+00A0">>, sPadded}
    \cup {Join(Repeat(sCCO, n), <<",">>) : n \in NearLimit}
    \cup {Join(Repeat(sCC, n), <<"\n">>) : n \in NearLimit}

PageRows ==
  { <<[s |-> sSMILES]>>, <<[s |-> sCCO]>>, <<[s |-> sCC]>>, <<[s |-> sCNC], [n |-> 5]>> }

PageSheets ==
  SeqsUpTo(PageRows, MaxPageRows)
    \cup {Repeat(<<[s |-> sCCO]>>, n) : n \in NearLimit}
    \cup {<<<<[s |-> sSMILES]>>>> \o Repeat(<<[s |-> sCNC]>>, n) : n \in NearLimit}

PageContents ==
  { <<>>,
    Join(<<sSMILES, sCCO, sCNC>>, <<"\r", "\n">>),
    Join(<<sCC, <<>>>>, <<"\n">>),
    Join(Repeat(sCCO \o <<";", "1">>, MAX_COMPOUNDS + 1), <<"\n">>) }

FileBodies ==
  {[readError |-> Null, content |-> <<>>, xlsx |-> "ok", sheet |-> g] : g \in PageSheets}
    \cup {[readError |-> Null, content |-> t, xlsx |-> "throws", sheet |-> <<>>] : t \in PageContents}
    \cup {[readError |-> Null, content |-> <<>>, xlsx |-> "nosheets", sheet |-> <<>>]}
    \cup {[readError |-> ProgressEvent, content |-> <<>>, xlsx |-> "ok", sheet |-> <<>>]}

nameCsv    == <<"a", ".", "c", "s", "v">>
nameUpper  == <<"A", ".", "C", "S", "V">>
nameXlsx   == <<"b", ".", "x", "l", "s", "x">>
nameXls    == <<"c", ".", "X", "l", "s">>
nameTxt    == <<"d", ".", "t", "x", "t">>
nameNoDot  == <<"c", "s", "v">>
nameCsvTxt == <<"e", ".", "c", "s", "v", ".", "t", "x", "t">>
nameTxtCsv == <<"f", ".", "t", "x", "t", ".", "c", "s", "v">>
nameXlsDot == <<"g", ".", "x", "l", "s", ".">>

MkFile(name, type, body) ==
  [name |-> name, type |-> type, readError |-> body.readError, content |-> body.content,
   xlsx |-> body.xlsx, sheet |-> body.sheet]

PlainBody == [readError |-> Null, content |-> <<>>, xlsx |-> "ok", sheet |-> <<<<[s |-> sCCO]>>>>]

PageFiles ==
  {MkFile(nameCsv, "text/csv", b) : b \in FileBodies}
    \cup {MkFile(nameXlsx, "", b) : b \in FileBodies}
    \cup {MkFile(n, t, PlainBody) :
            n \in {nameUpper, nameXls, nameTxt, nameNoDot, nameCsvTxt, nameTxtCsv, nameXlsDot},
            t \in {"", "text/csv"}}

(***************************************************************************)
(* Event handlers of Home.                                                 *)
(***************************************************************************)
\* useState initial values
InitPage ==
  /\ textareaValue = <<>>
  /\ selectedFile = NoFile
  /\ fileName = <<>>
  /\ results = Null
  /\ isLoading = FALSE
  /\ inputError = ""
  /\ pc = "idle"
  /\ active = 0
  /\ reads = 0
  /\ fetches = 0
  /\ smilesToProcess = <<>>
  /\ request = Null
  /\ res = Null
  /\ event = [branch |-> "init"]

TextareaChange_KeepsFile(value) ==
  /\ ~isLoading
  /\ textareaValue' = value
  /\ inputError' = ""
  /\ results' = Null
  /\ event' = [branch |-> "textChange"]
  /\ UNCHANGED <<selectedFile, fileName, isLoading, pc, smilesToProcess, request, res,
                 active, reads, fetches, call, ret>>

TextareaChange_KeepsResults(value) ==
  /\ ~isLoading
  /\ textareaValue' = value
  /\ selectedFile' = NoFile
  /\ fileName' = <<>>
  /\ inputError' = ""
  /\ event' = [branch |-> "textChange"]
  /\ UNCHANGED <<results, isLoading, pc, smilesToProcess, request, res,
                 active, reads, fetches, call, ret>>

\* textarea onChange (the textarea is disabled while loading)
TextareaChange(value) ==
  /\ ~isLoading
  /\ textareaValue' = value
  /\ selectedFile' = NoFile
  /\ fileName' = <<>>
  /\ inputError' = ""
  /\ results' = Null
  /\ event' = [branch |-> "textChange"]
  /\ UNCHANGED <<isLoading, pc, smilesToProcess, request, res, active, reads, fetches, call, ret>>

handleFileChange_KeepsText(file) ==
  /\ ~isLoading
  /\ IF file # NoFile
     THEN IF ~ExtensionAllowed(file.name)
          THEN /\ inputError' = msgInvalidType
               /\ selectedFile' = NoFile
               /\ fileName' = <<>>
               /\ event' = [branch |-> "fileRejected", name |-> file.name]
               /\ UNCHANGED <<textareaValue, results>>
          ELSE /\ selectedFile' = file
               /\ fileName' = file.name
               /\ inputError' = ""
               /\ results' = Null
               /\ event' = [branch |-> "fileAccepted", name |-> file.name]
               /\ UNCHANGED textareaValue
     ELSE /\ selectedFile' = NoFile
          /\ fileName' = <<>>
          /\ event' = [branch |-> "fileCancelled"]
          /\ UNCHANGED <<textareaValue, inputError, results>>
  /\ UNCHANGED <<isLoading, pc, smilesToProcess, request, res, active, reads, fetches, call, ret>>

\* handleFileChange (the file input is disabled while loading); file = NoFile
\* when the chooser delivers no file
handleFileChange(file) ==
  /\ ~isLoading
  /\ IF file # NoFile
     THEN IF ~ExtensionAllowed(file.name)
          THEN /\ inputError' = msgInvalidType
               /\ selectedFile' = NoFile
               /\ fileName' = <<>>
               /\ event' = [branch |-> "fileRejected", name |-> file.name]
               /\ UNCHANGED <<textareaValue, results>>
          ELSE /\ selectedFile' = file
               /\ fileName' = file.name
               /\ textareaValue' = <<>>
               /\ inputError' = ""
               /\ results' = Null
               /\ event' = [branch |-> "fileAccepted", name |-> file.name]
     ELSE /\ selectedFile' = NoFile
          /\ fileName' = <<>>
          /\ event' = [branch |-> "fileCancelled"]
          /\ UNCHANGED <<textareaValue, inputError, results>>
  /\ UNCHANGED <<isLoading, pc, smilesToProcess, request, res, active, reads, fetches, call, ret>>

\* clearInputs (the button is disabled while loading)
clearInputs ==
  /\ ~isLoading
  /\ textareaValue' = <<>>
  /\ selectedFile' = NoFile
  /\ fileName' = <<>>
  /\ inputError' = ""
  /\ results' = Null
  /\ event' = [branch |-> "clear"]
  /\ UNCHANGED <<isLoading, pc, smilesToProcess, request, res, active, reads, fetches, call, ret>>

SubmitDisabled_NoLoading == Trim(textareaValue) = <<>> /\ selectedFile = NoFile

\* the Predict button's disabled attribute
SubmitDisabled == isLoading \/ (Trim(textareaValue) = <<>> /\ selectedFile = NoFile)

\* handleSubmit: setInputError(msg); setIsLoading(false); return
Reject(list, msg, branch) ==
  /\ smilesToProcess' = list
  /\ inputError' = msg
  /\ isLoading' = FALSE
  /\ results' = Null
  /\ pc' = "idle"
  /\ request' = Null
  /\ event' = [branch |-> branch]

\* handleSubmit: fetch(API_URL, {method: 'POST', body: JSON.stringify({smiles: list})})
Send(list) ==
  /\ smilesToProcess' = list
  /\ inputError' = ""
  /\ isLoading' = TRUE
  /\ results' = Null
  /\ pc' = "fetching"
  /\ request' = [smiles |-> list]
  /\ event' = [branch |-> "sent"]

ValidateAndSend_NoLimit(list) ==
  IF Len(list) = 0 THEN Reject(list, msgNoInput, "rejectedEmpty")
  ELSE Send(list)

ValidateAndSend_NoEmpty(list) ==
  IF Len(list) > MAX_COMPOUNDS THEN Reject(list, MsgTooMany(Len(list)), "rejectedTooMany")
  ELSE Send(list)

\* handleSubmit from the emptiness test on: the count checks, then fetch
ValidateAndSend(list) ==
  IF Len(list) = 0 THEN Reject(list, msgNoInput, "rejectedEmpty")
  ELSE IF Len(list) > MAX_COMPOUNDS
  THEN Reject(list, MsgTooMany(Len(list)), "rejectedTooMany")
  ELSE Send(list)

\* handleSubmit, up to its first await
handleSubmit ==
  /\ ~SubmitDisabled
  /\ IF selectedFile # NoFile
     THEN /\ isLoading' = TRUE
          /\ results' = Null
          /\ inputError' = ""
          /\ smilesToProcess' = <<>>
          /\ request' = Null
          /\ pc' = "reading"
          /\ event' = [branch |-> "readStarted"]
     ELSE ValidateAndSend(TextToSmiles(textareaValue))
  \* history of this invocation: the awaits it has started
  /\ reads' = (IF pc' = "reading" THEN 1 ELSE 0)
  /\ fetches' = (IF pc' = "fetching" THEN 1 ELSE 0)
  /\ active' = (IF pc' = "idle" THEN active ELSE active + 1)
  /\ UNCHANGED <<textareaValue, selectedFile, fileName, res, call, ret>>

FileError_Silent(message, branch) ==
  /\ inputError' = ""
  /\ isLoading' = FALSE
  /\ pc' = "idle"
  /\ event' = [branch |-> branch]
  /\ UNCHANGED <<smilesToProcess, results, request>>

FileError_Retry(message, branch) ==
  /\ inputError' = (IF message # "" THEN message ELSE msgFailedProcess)
  /\ isLoading' = TRUE
  /\ pc' = "reading"
  /\ event' = [branch |-> branch]
  /\ UNCHANGED <<smilesToProcess, results, request>>

\* handleSubmit's catch (fileError): setInputError(fileError.message || ...);
\* setIsLoading(false); return
FileError(message, branch) ==
  /\ inputError' = (IF message # "" THEN message ELSE msgFailedProcess)
  /\ isLoading' = FALSE
  /\ pc' = "idle"
  /\ event' = [branch |-> branch]
  /\ UNCHANGED <<smilesToProcess, results, request>>

\* parseFileContent on each file a user can choose, evaluated once
ParsedFiles ==
  [f \in PageFiles |->
     parseFileContent(f.content, readFileContent(f).isBinary, f.name, f.xlsx, f.sheet)]

\* parseFileContent(fileData.content, fileData.isBinary, selectedFile.name):
\* the value is looked up for a file of PageFiles, and computed for any other
ParseFile(file, fileData) ==
  IF file \in DOMAIN ParsedFiles
  THEN ParsedFiles[file]
  ELSE parseFileContent(fileData.content, fileData.isBinary, file.name, file.xlsx, file.sheet)

\* handleSubmit resumed when readFileContent settles
FileRead ==
  /\ pc = "reading"
  /\ LET fileData == readFileContent(selectedFile)
     IN  IF fileData.rejected
         THEN FileError(fileData.message, "readFailed")
         ELSE LET parsed == ParseFile(selectedFile, fileData)
              IN  IF parsed.threw
                  THEN FileError(parsed.message, "parseFailed")
                  ELSE IF Len(parsed.smiles) = 0
                  THEN Reject(parsed.smiles, msgNoValidSmiles, "rejectedNoSmiles")
                  ELSE ValidateAndSend(parsed.smiles)
  \* history: a read or a request started by this step, the invocation over
  \* when no await is left
  /\ reads' = (IF pc' = "reading" THEN reads + 1 ELSE reads)
  /\ fetches' = (IF pc' = "fetching" THEN fetches + 1 ELSE fetches)
  /\ active' = (IF pc' = "idle" THEN active - 1 ELSE active)
  /\ UNCHANGED <<textareaValue, selectedFile, fileName, res, call, ret>>

SettledResults_StatusOnly(resp) ==
  IF resp.kind = "json"
  THEN IF ~resp.ok
       THEN [error |-> "Server Error: " \o resp.status]
       ELSE resp.data
  ELSE [error |-> "Network/Parsing Error: " \o resp.message]

\* handleSubmit: what setResults receives once fetch and res.json() have settled
SettledResults(resp) ==
  IF resp.kind = "json"
  THEN IF ~resp.ok
       THEN IF resp.data = Null
            THEN \* data.error of null throws a TypeError, caught like the others
                 [error |-> "Network/Parsing Error: Cannot read properties of null (reading 'error')"]
            ELSE [error |-> IF "error" \in DOMAIN resp.data /\ resp.data.error # ""
                            THEN resp.data.error
                            ELSE "Server Error: " \o resp.status]
       ELSE resp.data
  ELSE [error |-> "Network/Parsing Error: " \o resp.message]

\* handleSubmit's catch (err) and finally, or its last statements: setResults
\* and setIsLoading(false)
Settle(resp) ==
  /\ results' = SettledResults(resp)
  /\ isLoading' = FALSE
  /\ pc' = "idle"
  /\ res' = Null
  /\ event' = [branch |-> "settled", resp |-> resp]
  /\ active' = active - 1

\* handleSubmit resumed when fetch settles: a network failure goes to the
\* catch; a response of any status is kept in res and its body is awaited
FetchSettled(resp) ==
  /\ pc = "fetching"
  /\ IF resp.kind = "network"
     THEN Settle(resp)
     ELSE /\ res' = resp
          /\ pc' = "decoding"
          /\ event' = [branch |-> "responded", resp |-> resp]
          /\ UNCHANGED <<results, isLoading, active>>
  /\ UNCHANGED <<textareaValue, selectedFile, fileName, inputError, smilesToProcess,
                 request, reads, fetches, call, ret>>

\* handleSubmit resumed when res.json() settles
JsonSettled ==
  /\ pc = "decoding"
  /\ Settle(res)
  /\ UNCHANGED <<textareaValue, selectedFile, fileName, inputError, smilesToProcess,
                 request, reads, fetches, call, ret>>


(***************************************************************************)
(* The page.                                                               *)
(***************************************************************************)
NoCall == [fn |-> "none"]

Init ==
  /\ InitPage
  /\ call = NoCall
  /\ ret = NoCall

Next ==
  \/ \E value \in PageTexts : TextareaChange(value)
  \/ \E file \in PageFiles \cup {NoFile} : handleFileChange(file)
  \/ clearInputs
  \/ handleSubmit
  \/ FileRead
  \/ request # Null /\ \E resp \in Responses(request) : FetchSettled(resp)
  \/ JsonSettled

Spec == Init /\ [][Next]_vars

\* the step in which the service's response (or the network's failure) arrives
ServiceAnswers == request # Null /\ \E resp \in Responses(request) : FetchSettled(resp)

\* the page when every started file read and every started network call
\* completes or fails
SpecLive ==
  Init /\ [][Next]_vars /\ WF_vars(FileRead) /\ WF_vars(ServiceAnswers) /\ WF_vars(JsonSettled)


(***************************************************************************)
(* TextToSmiles called directly on every short text.                       *)
(***************************************************************************)
sExample == <<"C","C","C",","," ","C","C","O","\n","C","N","C">>

Texts ==
  SeqsUpTo({"C", "O", ",", "\n", " "}, MaxTextLen)
    \cup {sExample, sPadded \o <<",", "U+2028", "\r", "\n", "U+FEFF", "O", "U+000B">>}

InitText ==
  /\ InitPage
  /\ call \in {[fn |-> "TextToSmiles", text |-> t] : t \in Texts}
  /\ ret = NoCall

CallTextToSmiles ==
  /\ call.fn = "TextToSmiles"
  /\ ret = NoCall
  /\ ret' = [fn |-> "TextToSmiles", smiles |-> TextToSmiles(call.text)]
  /\ UNCHANGED <<pageVars, call>>

SpecText == InitText /\ [][CallTextToSmiles]_vars

(***************************************************************************)
(* parseFileContent called directly on small sheets and small CSV texts.   *)
(***************************************************************************)
ParseRows ==
  { <<[s |-> sSMILES]>>, <<[s |-> sCCO]>>, <<[s |-> sCNC], [n |-> 5]>>, <<[s |-> sCC]>>,
    <<[s |-> sMolecule]>>, <<[s |-> sCompound]>>,
    <<[s |-> LongCell(49)]>>, <<[s |-> LongCell(50)]>>, <<[s |-> sDotted]>>, <<[s |-> sPadded]>>,
    <<[u |-> TRUE], [s |-> sCCO]>>, <<[n |-> 123]>>, <<[b |-> FALSE]>> }

ValidRows == { <<[s |-> sCCO]>>, <<[s |-> sCNC], [n |-> 5]>>, <<[n |-> 123]>> }

ParseSheets ==
  SeqsUpTo(ParseRows, MaxRows)
    \cup {<<h>> \o d : h \in {<<[s |-> sSMILES]>>, <<[s |-> sMolecule]>>},
                       d \in [1..MaxRows -> ValidRows]}

ParseLines ==
  { sSMILES, sCCO, sCNC \o <<",", "x">>, sCC, <<>>, sMolecule, sMolecule \o <<"\t", "1">>,
    sCompound, <<";">> \o sCCO, LongCell(50), sPadded \o <<",", "x">> }

ParseContents ==
  {Join(ls, <<"\n">>) : ls \in SeqsUpTo(ParseLines, MaxLines)}
    \cup {Join(ls, <<"\r", "\n">>) : ls \in SeqsUpTo(ParseLines, MaxLines)}

\* contents of the files whose workbook parse fails
FailContents == {<<>>, Join(<<sSMILES, sCCO \o <<";", "1">>, sCNC>>, <<"\n">>)}

ParseFiles ==
  {[name |-> nameXlsx, type |-> "", readError |-> Null, content |-> <<>>,
    xlsx |-> "ok", sheet |-> g] : g \in ParseSheets}
    \cup {[name |-> nameCsv, type |-> "text/csv", readError |-> Null, content |-> t,
           xlsx |-> "throws", sheet |-> <<>>] : t \in ParseContents}
    \cup {[name |-> n, type |-> t, readError |-> Null, content |-> c,
           xlsx |-> x, sheet |-> <<>>] :
             n \in {nameCsv, nameUpper, nameXlsx, nameXls}, t \in {"", "text/csv"},
             c \in FailContents, x \in {"throws", "nosheets"}}

InitParse ==
  /\ InitPage
  /\ call \in {[fn |-> "parseFileContent", file |-> f] : f \in ParseFiles}
  /\ ret = NoCall

CallParseFileContent ==
  /\ call.fn = "parseFileContent"
  /\ ret = NoCall
  /\ ret' = [fn |-> "parseFileContent",
             out |-> parseFileContent(call.file.content, ~IsCsvTyped(call.file), call.file.name,
                                      call.file.xlsx, call.file.sheet)]
  /\ UNCHANGED <<pageVars, call>>

SpecParse == InitParse /\ [][CallParseFileContent]_vars


(***************************************************************************)
(* escapeCSVField and handleExportCSV called directly on small fields and  *)
(* small tables.                                                           *)
(***************************************************************************)
MaxFieldLen   == 3   \* longest enumerated field text
MaxExportRows == 2   \* most rows of an enumerated table

ExportFields ==
  {[s |-> t] : t \in SeqsUpTo({"C", ",", "\"", "\n", "\r"}, MaxFieldLen)}
    \cup {Null, [u |-> TRUE], [n |-> 0], [n |-> 12]}

\* the columns the service and the view derivation fill in
ExportCells ==
  {[smiles |-> f, type |-> [s |-> <<"I","n","h","i","b","i","t","o","r">>],
    class |-> [n |-> 1], ic50 |-> [s |-> <<"5",".","0","0">>]] :
      f \in {[s |-> sCCO], [s |-> <<"C", ",", "C">>], [s |-> <<"a", "\"", "b", "\n">>]}}
    \cup {[smiles |-> f, type |-> [s |-> <<"D","e","c","o","y">>],
            class |-> [s |-> sNA], ic50 |-> [s |-> sNA]] :
             f \in {[s |-> sCC], [s |-> <<"\"", "\"">>], Null, [u |-> TRUE]}}

ExportTables ==
  {[i \in 1..Len(t) |-> [id |-> [n |-> i], smiles |-> t[i].smiles, type |-> t[i].type,
                          class |-> t[i].class, ic50 |-> t[i].ic50]] :
     t \in SeqsUpTo(ExportCells, MaxExportRows)}

InitCsv ==
  /\ InitPage
  /\ call \in {[fn |-> "escapeCSVField", field |-> f] : f \in ExportFields}
              \cup {[fn |-> "handleExportCSV", tableData |-> t] : t \in ExportTables}
  /\ ret = NoCall

CallEscapeCSVField ==
  /\ call.fn = "escapeCSVField"
  /\ ret = NoCall
  /\ ret' = [fn |-> "escapeCSVField", out |-> escapeCSVField(call.field)]
  /\ UNCHANGED <<pageVars, call>>

CallHandleExportCSV ==
  /\ call.fn = "handleExportCSV"
  /\ ret = NoCall
  /\ ret' = [fn |-> "handleExportCSV", csv |-> handleExportCSV(call.tableData)]
  /\ UNCHANGED <<pageVars, call>>

NextCsv == CallEscapeCSVField \/ CallHandleExportCSV

SpecCsv == InitCsv /\ [][NextCsv]_vars


(***************************************************************************)
(* The view derivation run directly on small result sets.                  *)
(***************************************************************************)
MaxPredictions == 3   \* most predictions of an enumerated result set

ViewItems ==
  {[smiles |-> sCCO, classification |-> t, class |-> c, ic50 |-> (IF c = Null THEN Null ELSE [n |-> 5])] :
     t \in {sInhibitor, sDecoy}, c \in {Null, [n |-> 0], [n |-> 1], [n |-> 2], [n |-> 3]}}
    \cup {[smiles |-> sCC, classification |-> sInhibitor, class |-> Null, ic50 |-> [n |-> 12]],
           [smiles |-> sCC, classification |-> sInhibitor, class |-> [n |-> 1], ic50 |-> Null]}
    \cup {[smiles |-> sCC, classification |-> t, class |-> Null, ic50 |-> Null] :
             t \in {<<"1", "0">>, <<"9">>, <<"x">>}}

ViewResults ==
  {Null, [error |-> "bad request"]}
    \cup {[predictions |-> ps] : ps \in SeqsUpTo(ViewItems, MaxPredictions)}

InitViews ==
  /\ InitPage
  /\ call \in {[fn |-> "useEffect", results |-> r] : r \in ViewResults}
  /\ ret = NoCall

RunEffect ==
  /\ call.fn = "useEffect"
  /\ ret = NoCall
  /\ ret' = [fn |-> "useEffect", views |-> DerivedViews(call.results)]
  /\ UNCHANGED <<pageVars, call>>

SpecViews == InitViews /\ [][RunEffect]_vars


(***************************************************************************)
(* Claims about the free-text path.                                        *)
(***************************************************************************)
Delims == {"\n", ","}

\* the pieces of a text as the specification words them: split at every
\* newline and every comma, trim each piece, drop the empty ones
RefPieces(text) == SelectSeq(TrimEach(SplitEach(text, Delims)), NonEmpty)

InsertAfter(s, i, c) == SubSeq(s, 1, i) \o <<c>> \o SubSeq(s, i + 1, Len(s))

\* places where a piece begins or ends: the ends of the text and both sides of a delimiter
PieceEdges(s) ==
  {i \in 0..Len(s) : \/ i = 0
                     \/ i = Len(s)
                     \/ s[i] \in Delims
                     \/ s[i + 1] \in Delims}

\* the same text with whitespace added around a piece, one delimiter replaced
\* by the other, or one delimiter repeated
Respellings(s) ==
  {InsertAfter(s, i, w) : i \in PieceEdges(s), w \in {" ", "\t", "\r", "\f", "U+00A0", "U+FEFF"}}
    \cup {[s EXCEPT ![i] = d] : i \in {k \in 1..Len(s) : s[k] \in Delims}, d \in Delims}
    \cup {InsertAfter(s, i, d) : i \in {k \in 1..Len(s) : s[k] \in Delims}, d \in Delims}

\* C6: the candidate list of a free text is its pieces (split on newlines and
\* commas, trimmed, empties dropped) in order; whitespace around pieces, the
\* choice of delimiter and repeated delimiters do not change it; the text
\* "CCC, CCO\nCNC" gives CCC, CCO, CNC.
C6_TextPieces ==
  ret.fn = "TextToSmiles" =>
    /\ ret.smiles = RefPieces(call.text)
    /\ \A v \in Respellings(call.text) : TextToSmiles(v) = ret.smiles
    /\ call.text = sExample =>
         ret.smiles = <<<<"C","C","C">>, <<"C","C","O">>, <<"C","N","C">>>>

\* a text mixing both delimiters and padding, split into two pieces
C6_Witness ==
  /\ ret.fn = "TextToSmiles"
  /\ \A c \in {",", "\n", " "} : \E i \in 1..Len(call.text) : call.text[i] = c
  /\ Len(ret.smiles) = 2
  /\ ret.smiles[1] # ret.smiles[2]


(***************************************************************************)
(* Claims about parseFileContent.                                          *)
(***************************************************************************)
Parsed == ret.fn = "parseFileContent" /\ ~ret.out.threw

\* the string form of a first-column value: nothing for a missing one
ValueText(row, path) ==
  IF path = "lines" THEN SplitEach(row, FieldSep)[1]
  ELSE IF Len(row) = 0 \/ "u" \in DOMAIN row[1] THEN <<>>
  ELSE StringOf(row[1])

HasKeyword(t, kws) == \E k \in kws : Includes(t, k)

\* a first row recognised as a header by its first cell
HeaderLike(row, path) ==
  LET t == ToLowerCase(Trim(ValueText(row, path)))
  IN  Len(t) < 50 /\ HasKeyword(t, {kwSmiles, kwCompound, kwMolecule})

\* C7: the first row is skipped as a header exactly when the grid has more
\* than one row and its first cell, trimmed and lowercased, is shorter than 50
\* characters and contains "smiles", "compound" or "molecule"; otherwise no row
\* is skipped.
C7_HeaderSkip ==
  Parsed =>
    /\ ret.out.startIndex \in {0, 1}
    /\ ret.out.startIndex = 1 <=>
         (Len(ret.out.rows) > 1 /\ HeaderLike(ret.out.rows[1], ret.out.path))

\* a 49-character header cell in front of another row is skipped
C7_Witness ==
  /\ Parsed
  /\ ret.out.path = "sheet"
  /\ Len(ret.out.rows) > 1
  /\ Len(ValueText(ret.out.rows[1], "sheet")) = 49
  /\ ret.out.startIndex = 1

\* a first data row that header detection would itself take for a header, and
\* that the candidate filter would keep
MoleculeFirst(rows) ==
  LET t == ToLowerCase(Trim(ValueText(rows[1], "sheet")))
  IN  /\ Len(rows) > 1
      /\ Truthy(FirstCell(rows[1]))
      /\ Len(t) < 50
      /\ Includes(t, kwMolecule)
      /\ ~HasKeyword(t, {kwSmiles, kwCompound})

HeaderThenRows ==
  /\ Parsed
  /\ ret.out.path = "sheet"
  /\ Len(ret.out.rows) > 1
  /\ HeaderLike(ret.out.rows[1], "sheet")

\* C8 as claimed: for any data rows, the sheet with a recognised header row in
\* front of them and the sheet of the rows alone give the same list.
C8_Original ==
  HeaderThenRows => ret.out.smiles = SheetSmiles(Tail(ret.out.rows)).smiles

\* C8 amended: a recognised header row in front of the data rows changes the
\* list exactly when there are at least two data rows and the first one's
\* first cell is under 50 characters and contains "molecule" but neither
\* "smiles" nor "compound" (alone, that row is taken for the header); in every
\* other case both sheets give the same list, and a header in front of valid
\* data rows gives exactly those rows' trimmed first cells.
C8_HeaderNeutral ==
  HeaderThenRows =>
    LET data == Tail(ret.out.rows)
    IN  /\ (ret.out.smiles = SheetSmiles(data).smiles) <=> ~MoleculeFirst(data)
        /\ (\A i \in 1..Len(data) : data[i] \in ValidRows) =>
             /\ Len(ret.out.smiles) = Len(data)
             /\ \A i \in 1..Len(data) :
                  ret.out.smiles[i] = Trim(ValueText(data[i], "sheet"))

\* the header SMILES in front of three valid data rows: three candidates
C8_Witness ==
  /\ HeaderThenRows
  /\ ValueText(ret.out.rows[1], "sheet") = sSMILES
  /\ Len(ret.out.rows) = 4
  /\ \A i \in 2..4 : ret.out.rows[i] \in ValidRows
  /\ Len(ret.out.smiles) = 3
  /\ ret.out.smiles = SheetSmiles(Tail(ret.out.rows)).smiles

\* the claim's filter on a candidate text
Wanted(t) ==
  /\ t # <<>>
  /\ Len(t) > 2
  /\ ~HasKeyword(ToLowerCase(t), {kwSmiles, kwCompound})

\* the string form of a first-column value the code takes into account:
\* nothing for a missing, empty, 0 or false one
TruthyText(row, path) ==
  IF path = "sheet" /\ ~Truthy(FirstCell(row)) THEN <<>> ELSE ValueText(row, path)

\* the wanted texts of the rows, in row order, repeats kept
Select(rows, path, truthyOnly) ==
  LET text == [i \in 1..Len(rows) |->
                 Trim(IF truthyOnly THEN TruthyText(rows[i], path)
                      ELSE ValueText(rows[i], path))]
      kept == {i \in 1..Len(rows) : Wanted(text[i])}
  IN  [k \in 1..Cardinality(kept) |->
         text[CHOOSE i \in kept : Cardinality({j \in kept : j < i}) = k - 1]]

\* C9 as claimed: the list is, in row order and without deduplication, the
\* trimmed string form of the first-column value of every remaining row for
\* which that text is non-empty, longer than 2 characters and free of "smiles"
\* and "compound".
C9_Original ==
  Parsed =>
    ret.out.smiles = Select(Slice(ret.out.rows, ret.out.startIndex), ret.out.path, FALSE)

\* C9 amended: the same, except that a first-column value that is false (like
\* a missing, empty or 0 one) contributes nothing; no text of length 2 or less
\* is ever in the list.
C9_FirstColumn ==
  Parsed =>
    /\ ret.out.smiles =
         Select(Slice(ret.out.rows, ret.out.startIndex), ret.out.path, TRUE)
    /\ \A i \in 1..Len(ret.out.smiles) : Len(ret.out.smiles[i]) > 2

\* a sheet with a short cell, a padded cell and a repeated cell: the short one
\* is dropped, the padded one trimmed, the repeated one kept twice
C9_Witness ==
  /\ Parsed
  /\ ret.out.path = "sheet"
  /\ ret.out.startIndex = 0
  /\ \E i \in 1..Len(ret.out.rows) : ValueText(ret.out.rows[i], "sheet") = sCC
  /\ ret.out.smiles = <<sCCO, sCCO>>

\* the workbook parse of the file of the call failed
ParseFailed == ret.fn = "parseFileContent" /\ call.file.xlsx # "ok"

\* the first comma/semicolon/tab-separated field of every line, trimmed
FirstFields(text) ==
  LET rows == SplitLines(text)
  IN  {Trim(SplitEach(rows[i], FieldSep)[1]) : i \in 1..Len(rows)}

\* C11 as claimed: when the workbook parse fails, the outcome depends only on
\* whether the file is CSV-typed (was read as text by readFileContent): every
\* CSV-typed file falls back to line-splitting, taking the first
\* comma/semicolon/tab-separated field of each line, and every other file
\* fails with the "could not parse" error.
C11_Original ==
  ParseFailed =>
    IF IsCsvTyped(call.file)
    THEN /\ ~ret.out.threw
         /\ ret.out.path = "lines"
         /\ \A i \in 1..Len(ret.out.smiles) : ret.out.smiles[i] \in FirstFields(call.file.content)
    ELSE /\ ret.out.threw
         /\ ret.out.message =
              "Could not parse file. Ensure SMILES are in the first column of a valid Excel (xlsx, xls) or CSV file."

\* C12 as claimed: when the parsed workbook contains no sheet,
\* parseFileContent fails with the error "No sheets found in the file.", and
\* that is the failure reported to the caller.
C12_Original ==
  (ret.fn = "parseFileContent" /\ call.file.xlsx = "nosheets") =>
    /\ ret.out.threw
    /\ ret.out.message = "No sheets found in the file."


(***************************************************************************)
(* Claims about the page.                                                  *)
(***************************************************************************)
\* a request is with the service; selectedFile tells which path assembled it
InFlight == pc \in {"fetching", "decoding"} /\ request # Null

\* states in which smilesToProcess is the list of the current or last
\* submission and no input event has happened since
Assembled ==
  event.branch \in {"rejectedEmpty", "rejectedTooMany", "rejectedNoSmiles", "sent", "settled"}

\* C1 as claimed: every list handed to the service, from text or from a file,
\* is non-empty, has at most 20 entries, and every entry is trimmed and longer
\* than 2 characters.
C1_Original ==
  InFlight =>
    /\ Len(request.smiles) \in 1..20
    /\ \A i \in 1..Len(request.smiles) :
         Trim(request.smiles[i]) = request.smiles[i] /\ Len(request.smiles[i]) > 2

\* C1 amended: every list handed to the service is non-empty, has at most 20
\* entries, and every entry is trimmed and non-empty; an entry taken from a
\* file is also longer than 2 characters (an entry typed as text may have 1 or
\* 2 characters).
C1_SentList ==
  InFlight =>
    /\ Len(request.smiles) \in 1..20
    /\ \A i \in 1..Len(request.smiles) :
         /\ Trim(request.smiles[i]) = request.smiles[i]
         /\ Len(request.smiles[i]) > 0
         /\ selectedFile # NoFile => Len(request.smiles[i]) > 2

\* a full list of 20 padded cells of a file, sent trimmed
C1_Witness ==
  /\ InFlight
  /\ selectedFile # NoFile
  /\ Len(request.smiles) = 20
  /\ \E i \in 1..Len(selectedFile.sheet) :
       Trim(StringOf(FirstCell(selectedFile.sheet[i]))) # StringOf(FirstCell(selectedFile.sheet[i]))

\* C2: a submission whose assembled list has more than 20 entries issues no
\* request and ends with the inline message naming the limit 20 and the actual
\* count, the loading flag false.
C2_TooMany ==
  (Assembled /\ Len(smilesToProcess) > 20) =>
    /\ request = Null
    /\ pc = "idle"
    /\ ~isLoading
    /\ results = Null
    /\ inputError = "Max 20 compounds allowed. You provided "
                      \o ToString(Len(smilesToProcess)) \o "."

\* 21 entries from a file, rejected
C2_Witness ==
  /\ Assembled
  /\ Len(smilesToProcess) = 21
  /\ selectedFile # NoFile
  /\ inputError = "Max 20 compounds allowed. You provided 21."

\* C3 as claimed: a submission whose assembled list is empty, from text or
\* from a file, is rejected with the "no input provided" message and sends
\* nothing.
C3_Original ==
  (Assembled /\ smilesToProcess = <<>>) =>
    /\ inputError = "No SMILES input. Enter in textarea or upload file."
    /\ request = Null

\* C3 amended: a submission whose assembled list is empty sends nothing and is
\* rejected with an inline message: the "no input provided" message when the
\* list came from text, the "no valid SMILES found in file" message when it
\* came from a file.
C3_Empty ==
  (Assembled /\ smilesToProcess = <<>>) =>
    /\ request = Null
    /\ pc = "idle"
    /\ ~isLoading
    /\ inputError =
         IF selectedFile = NoFile
         THEN "No SMILES input. Enter in textarea or upload file."
         ELSE "No valid SMILES found in file. Check format (SMILES in first column, optional header)."

\* a text of delimiters only, submitted and rejected
C3_Witness ==
  /\ event.branch = "rejectedEmpty"
  /\ smilesToProcess = <<>>
  /\ textareaValue # <<>>
  /\ inputError = msgNoInput

TextActive == textareaValue # <<>>
FileActive == selectedFile # NoFile

\* C4 as claimed: in every reachable state exactly one of free text and
\* uploaded file is the active input source.
C4_Original == (TextActive /\ ~FileActive) \/ (FileActive /\ ~TextActive)

\* C4 amended: in every reachable state at most one of free text and uploaded
\* file is active, and exactly one is while a submission is in progress; in
\* the initial state and after a clear action neither is.
C4_OneSource ==
  /\ ~(TextActive /\ FileActive)
  /\ isLoading => (TextActive \/ FileActive)
  /\ event.branch \in {"init", "clear"} => (~TextActive /\ ~FileActive)

\* a submission of a selected file, waiting for the service: the file is the
\* one active source
C4_Witness ==
  /\ FileActive
  /\ ~TextActive
  /\ isLoading
  /\ pc = "fetching"

\* C5 as claimed: every file selection with a file leaves the text empty and
\* the result set null, and every text edit leaves the file null and the
\* result set null.
C5_Original ==
  /\ event.branch \in {"fileAccepted", "fileRejected"} => (textareaValue = <<>> /\ results = Null)
  /\ event.branch = "textChange" => (selectedFile = NoFile /\ results = Null)

\* C5 amended: every accepted file selection (a file with an allowed
\* extension) leaves the text empty and the result set null, and every text
\* edit leaves the file null and the result set null.
C5_Exclusive ==
  /\ event.branch = "fileAccepted" =>
       (selectedFile # NoFile /\ textareaValue = <<>> /\ results = Null)
  /\ event.branch = "textChange" => (selectedFile = NoFile /\ fileName = <<>> /\ results = Null)

\* an accepted file, nothing typed, no results
C5_Witness ==
  /\ event.branch = "fileAccepted"
  /\ selectedFile # NoFile
  /\ textareaValue = <<>>
  /\ results = Null

\* the extension as the specification words it: the name's text from its last
\* '.', compared without regard to case
ExtensionOk(name) ==
  LET dots == {i \in 1..Len(name) : name[i] = "."}
      ext  == IF dots = {} THEN name
              ELSE SubSeq(name, CHOOSE i \in dots : \A j \in dots : j <= i, Len(name))
  IN  ToLowerCase(ext) \in {extCsv, extXls, extXlsx}

\* C10: a file whose extension (text from the last '.', case-insensitive) is
\* not .csv, .xls or .xlsx is rejected when selected: the invalid-file-type
\* message is set and no file is left selected, so no submission ever reads or
\* parses such a file.
C10_BadExtension ==
  /\ (event.branch \in {"fileAccepted", "fileRejected"} /\ ~ExtensionOk(event.name)) =>
       /\ inputError = "Invalid file type. Please upload CSV, XLS, or XLSX."
       /\ selectedFile = NoFile
       /\ fileName = <<>>
       /\ pc = "idle"
  /\ selectedFile # NoFile => ExtensionOk(selectedFile.name)
  /\ pc = "reading" => (selectedFile # NoFile /\ ExtensionOk(selectedFile.name))

\* a rejected file, with the message shown and a typed text still there
C10_Witness ==
  /\ event.branch = "fileRejected"
  /\ ~ExtensionOk(event.name)
  /\ selectedFile = NoFile
  /\ inputError = msgInvalidType
  /\ textareaValue # <<>>

\* a response of the service with a JSON body {"error": m} and a non-2xx status
ErrorBody(resp) ==
  resp.kind = "json" /\ ~resp.ok /\ resp.data # Null /\ "error" \in DOMAIN resp.data

\* no body could be decoded: the network failed or the body is not JSON
NoBody(resp) == resp.kind \in {"network", "badjson"}

\* C13 as claimed: after a submission that reached the service, a non-2xx
\* response with a JSON body {"error": m} sets the result set to an error
\* whose message is exactly m; a body that fails JSON decoding, or a network
\* failure, sets it to a "Network/Parsing Error" message; in both cases the
\* inline error stays empty and the result set is not null.
C13_Original ==
  event.branch = "settled" =>
    /\ ErrorBody(event.resp) => results = [error |-> event.resp.data.error]
    /\ NoBody(event.resp) => results = [error |-> "Network/Parsing Error: " \o event.resp.message]
    /\ (ErrorBody(event.resp) \/ NoBody(event.resp)) => (inputError = "" /\ results # Null)

\* C13 amended: the same, except that the message is exactly m only when m
\* is non-empty; a non-2xx response whose body has an empty or no "error"
\* gives the message "Server Error: <status>".
C13_ServiceError ==
  event.branch = "settled" =>
    /\ ErrorBody(event.resp) =>
         results = [error |-> IF event.resp.data.error # "" THEN event.resp.data.error
                              ELSE "Server Error: " \o event.resp.status]
    /\ (event.resp.kind = "json" /\ ~event.resp.ok /\ event.resp.data # Null
          /\ ~ErrorBody(event.resp)) =>
         results = [error |-> "Server Error: " \o event.resp.status]
    /\ NoBody(event.resp) => results = [error |-> "Network/Parsing Error: " \o event.resp.message]
    /\ (ErrorBody(event.resp) \/ NoBody(event.resp)) =>
         (inputError = "" /\ results # Null /\ ~isLoading /\ pc = "idle")

\* the service answered 400 {"error": "bad request"} to a list read from a file
C13_Witness ==
  /\ event.branch = "settled"
  /\ ErrorBody(event.resp)
  /\ results = [error |-> "bad request"]
  /\ inputError = ""
  /\ selectedFile # NoFile

\* C14: at most one submission is in progress at any time: while the loading
\* flag is true (from the start of handleSubmit until its file read and
\* network call have completed or failed) the submit action is disabled, so
\* no second file read or request starts before the first submission ends.
C14_OneSubmission ==
  /\ active \in {0, 1}
  /\ isLoading <=> active = 1
  /\ isLoading <=> pc \in {"reading", "fetching", "decoding"}
  /\ isLoading => (SubmitDisabled /\ ~ENABLED handleSubmit)
  /\ pc \in {"fetching", "decoding"} => request # Null
  /\ pc = "decoding" <=> res # Null

\* a submission of a file whose request is with the service: submitting is disabled
C14_Witness ==
  /\ isLoading
  /\ active = 1
  /\ pc = "fetching"
  /\ reads = 1
  /\ SubmitDisabled

\* C15: a submission whose file cannot be read, cannot be parsed, or yields
\* zero identifiers ends with a non-empty inline error message, a null result
\* set and the loading flag false, and issues no network request.
C15_FileFailure ==
  event.branch \in {"readFailed", "parseFailed", "rejectedNoSmiles"} =>
    /\ inputError # ""
    /\ inputError =
         CASE event.branch = "readFailed" -> "File reading error: undefined"
           [] event.branch = "parseFailed" ->
                "Could not parse file. Ensure SMILES are in the first column of a valid Excel (xlsx, xls) or CSV file."
           [] event.branch = "rejectedNoSmiles" ->
                "No valid SMILES found in file. Check format (SMILES in first column, optional header)."
    /\ results = Null
    /\ ~isLoading
    /\ pc = "idle"
    /\ request = Null
    /\ fetches = 0
    /\ reads = 1

\* a workbook that cannot be parsed, read as binary: the parse error is shown
C15_Witness ==
  /\ event.branch = "parseFailed"
  /\ selectedFile # NoFile
  /\ ~IsCsvTyped(selectedFile)
  /\ selectedFile.xlsx = "throws"
  /\ inputError = msgCouldNotParse
  /\ results = Null

\* the last submission ended in a failed read or a failed request
FailedLast ==
  \/ event.branch = "readFailed"
  \/ event.branch = "settled" /\ (event.resp.kind # "json" \/ ~event.resp.ok)

\* C16: nothing is retried automatically: each submit action causes at most
\* one file read and at most one network request, and after a failed read or
\* failed request no read or request happens until the user submits again.
C16_NoRetry ==
  /\ reads \in {0, 1}
  /\ fetches \in {0, 1}
  /\ pc = "reading" => (reads = 1 /\ fetches = 0)
  /\ pc \in {"fetching", "decoding"} => fetches = 1
  /\ FailedLast =>
       /\ pc = "idle"
       /\ active = 0
       /\ ~ENABLED FileRead
       /\ ~ENABLED ServiceAnswers
       /\ ~ENABLED JsonSettled
  /\ ~isLoading => (~ENABLED FileRead /\ ~ENABLED ServiceAnswers /\ ~ENABLED JsonSettled)

\* the read of a selected file failed: one read, no request, nothing pending
C16_Witness ==
  /\ event.branch = "readFailed"
  /\ reads = 1
  /\ fetches = 0
  /\ active = 0
  /\ selectedFile # NoFile
  /\ ~SubmitDisabled


(***************************************************************************)
(* Claims about the CSV export.                                            *)
(***************************************************************************)
\* a reader of CSV text: a character is outside quotes when an even number of
\* quotes precedes it; records end at a line feed outside quotes, fields at a
\* comma outside quotes; a quoted field loses its outer quotes and keeps one
\* quote of every doubled one
QuotesBefore(s, i) == Cardinality({j \in 1..(i - 1) : s[j] = "\""})

\* the characters of s at the positions of keep, in order
PickSeq(s, keep) ==
  [k \in 1..Cardinality(keep) |->
     s[CHOOSE i \in keep : Cardinality({j \in keep : j < i}) = k - 1]]

SplitOutside(s, d) ==
  LET cuts == {i \in 1..Len(s) : s[i] = d /\ QuotesBefore(s, i) % 2 = 0}
      n    == Cardinality(cuts)
      cut  == [k \in 0..(n + 1) |->
                 IF k = 0 THEN 0
                 ELSE IF k = n + 1 THEN Len(s) + 1
                 ELSE CHOOSE i \in cuts : Cardinality({j \in cuts : j < i}) = k - 1]
  IN  [k \in 1..(n + 1) |-> SubSeq(s, cut[k - 1] + 1, cut[k] - 1)]

Unquote(f) ==
  IF f # <<>> /\ f[1] = "\""
  THEN LET inner == SubSeq(f, 2, Len(f) - 1)
       IN  PickSeq(inner, {j \in 1..Len(inner) :
                             inner[j] # "\"" \/ QuotesBefore(inner, j) % 2 = 1})
  ELSE f

CsvRecords(s) ==
  LET recs == SplitOutside(s, "\n")
  IN  [r \in 1..Len(recs) |->
         LET fs == SplitOutside(recs[r], ",")
         IN  [k \in 1..Len(fs) |-> Unquote(fs[k])]]

\* the string form of a field: empty for null and undefined
FieldText(f) == IF f = Null \/ "u" \in DOMAIN f THEN <<>> ELSE StringOf(f)

NeedsQuotes(t) == \E i \in 1..Len(t) : t[i] \in {",", "\"", "\n", "\r"}

QuoteCount(t) == Cardinality({i \in 1..Len(t) : t[i] = "\""})

\* C17: escapeCSVField returns the field wrapped in double quotes with every
\* internal double quote doubled exactly when the field's string form contains
\* a comma, a double quote or a line break, and the string form unchanged
\* otherwise (empty for null/undefined); C,C is exported as "C,C".  Each
\* exported row has the five columns ID, Compound (SMILES), Type, Class,
\* IC50 (nM) in that order.
C17_CsvExport ==
  /\ ret.fn = "escapeCSVField" =>
       LET t == FieldText(call.field)
       IN  /\ NeedsQuotes(t) =>
                /\ Len(ret.out) = Len(t) + QuoteCount(t) + 2
                /\ Head(ret.out) = "\"" /\ ret.out[Len(ret.out)] = "\""
                /\ QuoteCount(ret.out) = 2 * QuoteCount(t) + 2
           /\ ~NeedsQuotes(t) => ret.out = t
           /\ CsvRecords(ret.out) = <<<<t>>>>
           /\ t = <<"C", ",", "C">> => ret.out = <<"\"", "C", ",", "C", "\"">>
  /\ (ret.fn = "handleExportCSV" /\ call.tableData # <<>>) =>
       LET table == call.tableData
       IN  CsvRecords(ret.csv) =
             <<headers>> \o
             [i \in 1..Len(table) |->
                <<NatToString(i), FieldText(table[i].smiles), FieldText(table[i].type),
                  FieldText(table[i].class), FieldText(table[i].ic50)>>]
  /\ (ret.fn = "handleExportCSV" /\ call.tableData = <<>>) => ret.csv = Null

\* a table whose first identifier is C,C: its row starts 1,"C,C",
C17_Witness ==
  /\ ret.fn = "handleExportCSV"
  /\ Len(call.tableData) = 2
  /\ call.tableData[1].smiles = [s |-> <<"C", ",", "C">>]
  /\ LET rows == SplitEach(ret.csv, {"\n"})
     IN  SubSeq(rows[2], 1, 8) = <<"1", ",", "\"", "C", ",", "C", "\"", ",">>


(***************************************************************************)
(* Claims about the end of a submission.                                   *)
(***************************************************************************)
\* handleSubmit has just returned
SubmissionEnded ==
  event.branch \in {"readFailed", "parseFailed", "rejectedNoSmiles", "rejectedEmpty",
                    "rejectedTooMany", "settled"}

\* C18 as claimed: every submission eventually finishes when the file read
\* and the network call each complete or fail: the loading flag returns to
\* false, and at that point either the inline error is non-empty or the
\* result set is non-null.
C18_Original ==
  /\ isLoading ~> ~isLoading
  /\ [](SubmissionEnded => (~isLoading /\ (inputError # "" \/ results # Null)))

\* the part of C18 that holds, 0: when every started file read and network
\* call completes or fails, the loading flag always returns to false
C18_Finishes == isLoading ~> ~isLoading

\* the awaits handleSubmit still has before it
Rank == CASE pc = "reading" -> 3 [] pc = "fetching" -> 2 [] pc = "decoding" -> 1 [] OTHER -> 0

\* the part of C18 that holds, 1: while the loading flag is true every step
\* takes handleSubmit past an await (so at most three steps follow), and the
\* flag is false exactly when no await is left
C18_Progress == [][isLoading => (Rank' < Rank /\ (isLoading' <=> Rank' > 0))]_vars

\* the part of C18 that holds, 2: a finished submission has the loading flag
\* false, and has neither an inline error nor a result set only when the
\* service answered 2xx with the body null
C18_Outcome ==
  SubmissionEnded =>
    /\ ~isLoading
    /\ (inputError = "" /\ results = Null) =>
         (event.branch = "settled" /\ event.resp.kind = "json" /\ event.resp.ok
            /\ event.resp.data = Null)


(***************************************************************************)
(* Claims about the derived views.                                         *)
(***************************************************************************)
RECURSIVE SumValues(_)
SumValues(entries) ==
  IF entries = <<>> THEN 0 ELSE Head(entries).value + SumValues(Tail(entries))

\* the result set holds predictions
HoldsPredictions(rs) == rs # Null /\ "predictions" \in DOMAIN rs

\* C19: the three derived views follow the result set: with n predictions the
\* table has exactly n rows in response order with ids 1..n (a null class or
\* potency shown as N/A), the type-distribution counts sum to n, and the
\* class-distribution view has exactly the entries Class 0, Class 1, Class 2,
\* each counting the inhibitors with that non-null class; with a null or
\* error result set all three views are empty.
C19_Views ==
  ret.fn = "useEffect" =>
    LET rs  == call.results
        v   == ret.views
    IN  IF HoldsPredictions(rs)
        THEN LET ps == rs.predictions
                 n  == Len(ps)
             IN  /\ Len(v.tableData) = n
                 /\ \A i \in 1..n :
                      /\ v.tableData[i].id = [n |-> i]
                      /\ v.tableData[i].smiles = [s |-> ps[i].smiles]
                      /\ ToLowerCase(v.tableData[i].type.s) = ps[i].classification
                      /\ v.tableData[i].class =
                           (IF ps[i].class = Null THEN [s |-> <<"N", "/", "A">>] ELSE ps[i].class)
                      /\ (ps[i].ic50 = Null) <=> (v.tableData[i].ic50 = [s |-> <<"N", "/", "A">>])
                 /\ SumValues(v.pieChartData) = n
                 /\ \A k \in 1..Len(v.pieChartData) : v.pieChartData[k].value > 0
                 /\ Len(v.barChartData) = 3
                 /\ \A c \in 0..2 :
                      /\ v.barChartData[c + 1].name = <<"C","l","a","s","s"," ">> \o <<Digit[c + 1]>>
                      /\ v.barChartData[c + 1].value =
                           Cardinality({i \in 1..n : /\ ps[i].classification = sInhibitor
                                                      /\ ps[i].class = [n |-> c]})
        ELSE v.tableData = <<>> /\ v.pieChartData = <<>> /\ v.barChartData = <<>>

\* three predictions, an inhibitor of class 1, a decoy of class 1 and an
\* inhibitor without class: three rows, Class 1 counts one
C19_Witness ==
  /\ ret.fn = "useEffect"
  /\ HoldsPredictions(call.results)
  /\ Len(call.results.predictions) = 3
  /\ call.results.predictions[1].classification = sInhibitor
  /\ call.results.predictions[1].class = [n |-> 1]
  /\ call.results.predictions[2].classification = sDecoy
  /\ call.results.predictions[2].class = [n |-> 1]
  /\ call.results.predictions[3].class = Null
  /\ Len(ret.views.tableData) = 3
  /\ ret.views.tableData[3].class = [s |-> sNA]
  /\ ret.views.barChartData[2].value = 1


(***************************************************************************)
(* Claims about the input sources.                                         *)
(***************************************************************************)
\* C20: in every reachable state at most one input source is populated: a
\* non-empty free text and a selected file never hold together, after any
\* sequence of text edits, file selections (accepted, rejected or
\* cancelled), submissions and clear actions.
C20_AtMostOne ==
  /\ textareaValue = <<>> \/ selectedFile = NoFile
  /\ event.branch = "textChange" => selectedFile = NoFile
  /\ event.branch = "fileAccepted" => textareaValue = <<>>
  /\ event.branch \in {"fileRejected", "fileCancelled", "clear"} => selectedFile = NoFile
  /\ fileName # <<>> => selectedFile # NoFile

\* a submission of a typed text has been answered: the text is still the
\* only source
C20_Witness ==
  /\ event.branch = "settled"
  /\ textareaValue # <<>>
  /\ selectedFile = NoFile
  /\ reads = 0
  /\ results # Null


(***************************************************************************)
(* Claims about the two paths of parseFileContent.                         *)
(***************************************************************************)
\* a text whose lines hold no comma, semicolon or tab
SingleColumn(text) == \A i \in 1..Len(text) : text[i] \notin FieldSep

\* the lines of a text read as a grid of one-cell rows, blank rows removed
GridOf(text) ==
  LET lines == SelectSeq(SplitLines(text), NonEmpty)
  IN  [i \in 1..Len(lines) |-> <<[s |-> lines[i]]>>]

\* the fallback ran on a single-column text
FallbackOnColumn ==
  /\ Parsed
  /\ ret.out.path = "lines"
  /\ SingleColumn(call.file.content)

\* C21 as claimed: for any single-column CSV text, possibly with blank or
\* trailing empty lines, the list of the line-splitting fallback equals the
\* list the structured path gives for the same lines read as a grid with
\* blank rows removed, the header decision included.
C21_Original ==
  FallbackOnColumn =>
    LET grid == SheetSmiles(GridOf(call.file.content))
    IN  /\ ret.out.smiles = grid.smiles
        /\ (ret.out.startIndex = 1) <=> (grid.startIndex = 1)

\* the part of C21 that holds: on a single-column text without empty lines
\* both paths give the same list and take the same header decision
C21_NoEmptyLines ==
  (FallbackOnColumn /\ \A i \in 1..Len(ret.out.rows) : ret.out.rows[i] # <<>>) =>
    LET grid == SheetSmiles(GridOf(call.file.content))
    IN  /\ ret.out.smiles = grid.smiles
        /\ ret.out.startIndex = grid.startIndex

====
